---------------------------- MODULE Spec2Model ----------------------------
(***************************************************************************)
(* Model of generate_stats_sheets.py: the weekly stats sheet generator.    *)
(*                                                                         *)
(* One run of main() is a sequence of steps (pc): parse_args, the start    *)
(* date resolution, the week list, the document template, the story loop   *)
(* (build_week_page per week), and doc.build, which lays the story out     *)
(* page by page and calls beforePage on every page, and finally saves the  *)
(* file.                                                                   *)
(*                                                                         *)
(* Lengths on the page are in tenths of a point (1 inch = 720); column     *)
(* widths are in millimetres.  Dates are [year, month, day] records, as    *)
(* datetime.date holds them; date arithmetic goes through the proleptic    *)
(* Gregorian ordinal like datetime does.                                   *)
(***************************************************************************)
EXTENDS Integers, Sequences, FiniteSets, TLC

VARIABLES
    pc,            \* position of main()
    cfg,           \* the module constants INTERACTION_TYPES, DURATIONS, TIME_BLOCKS
    args,          \* argparse namespace: start, weeks
    given,         \* main's local `given` (a date) or NoDate
    first_monday,  \* main's local `first_monday` or NoDate
    week_starts,   \* main's list `week_starts`
    weeks_built,   \* whether line 210 has run
    doc,           \* the WeekDocTemplate, or NoDoc
    story,         \* main's list `story`
    idx,           \* loop index of the story loop (1-based position in week_starts)
    cur,           \* locals of the running build_week_page call: data, col_widths
    pages,         \* the physical pages the renderer has produced
    pos,           \* renderer: position in story and first undrawn row of its table
    file_written,  \* whether --outfile has been created/overwritten
    exit_msg       \* "" or the kind of abnormal termination

vars == <<pc, cfg, args, given, first_monday, week_starts, weeks_built, doc,
          story, idx, cur, pages, pos, file_written, exit_msg>>

---------------------------------------------------------------------------
(* Bounds of the model *)

\* largest --weeks value explored
MaxWeeks == 3
\* number of consecutive days explored for datetime.date.today()
TodaySpan == 7

---------------------------------------------------------------------------
(* Module constants, lines 27-40 *)

INTERACTION_TYPES ==
    <<"3d model", "3d print", "3d scan", "software", "sewing machines",
      "vinyl cutter", "podcasting", "virtual reality">>
DURATIONS == <<"<5", "5-15", ">15">>
TIME_BLOCKS == <<"8a-10a", "10a-12p", "12p-2p", "2p-4p", "4p-6p">>

\* The lists as shipped, and lists a user has modified as the module
\* docstring invites ("Modify INTERACTION_TYPES, DURATIONS, and TIME_BLOCKS
\* as needed").
TypeChoices == { INTERACTION_TYPES, <<"3d print", "software">> }
DurationChoices ==
    { DURATIONS, <<"<10", ">=10">>, <<"<5", "5-15", "15-30", ">30">> }
BlockChoices == { TIME_BLOCKS, <<"am", "pm">> }

Configs ==
    [types : TypeChoices, durations : DurationChoices, blocks : BlockChoices]

---------------------------------------------------------------------------
(* datetime.date *)

NoDate == [year |-> 0, month |-> 0, day |-> 0]

IsLeap(y) == (y % 4 = 0) /\ ((y % 100 # 0) \/ (y % 400 = 0))

DaysInMonthTable == <<31, 28, 31, 30, 31, 30, 31, 31, 30, 31, 30, 31>>

DaysInMonth(y, m) ==
    IF m = 2 /\ IsLeap(y) THEN 29 ELSE DaysInMonthTable[m]

RECURSIVE DaysBeforeMonth(_, _)
DaysBeforeMonth(y, m) ==
    IF m = 1 THEN 0 ELSE DaysBeforeMonth(y, m - 1) + DaysInMonth(y, m - 1)

DaysBeforeYear(y) ==
    LET p == y - 1
    IN  p * 365 + (p \div 4) - (p \div 100) + (p \div 400)

\* date.toordinal(): 0001-01-01 is day 1
ToOrdinal(d) ==
    DaysBeforeYear(d.year) + DaysBeforeMonth(d.year, d.month) + d.day

\* date.fromordinal(): the 400/100/4/1-year cycle decomposition
FromOrdinal(ord) ==
    LET n0   == ord - 1
        n400 == n0 \div 146097
        r400 == n0 % 146097
        n100 == r400 \div 36524
        r100 == r400 % 36524
        n4   == r100 \div 1461
        r4   == r100 % 1461
        n1   == r4 \div 365
        r1   == r4 % 365
        y    == n400 * 400 + 1 + n100 * 100 + n4 * 4 + n1
    IN  IF n1 = 4 \/ n100 = 4
        THEN [year |-> y - 1, month |-> 12, day |-> 31]
        ELSE LET m == CHOOSE k \in 1..12 :
                          /\ DaysBeforeMonth(y, k) <= r1
                          /\ r1 < DaysBeforeMonth(y, k) + DaysInMonth(y, k)
             IN  [year |-> y, month |-> m, day |-> r1 - DaysBeforeMonth(y, m) + 1]

\* date + timedelta(days=n)
AddDays(d, n) == FromOrdinal(ToOrdinal(d) + n)

\* date.weekday(): Monday is 0, Sunday is 6
Weekday(d) == (ToOrdinal(d) + 6) % 7

DayNames ==
    <<"Monday", "Tuesday", "Wednesday", "Thursday", "Friday", "Saturday", "Sunday">>

Digits == <<"0", "1", "2", "3", "4", "5", "6", "7", "8", "9">>

Pad2(n) == Digits[((n \div 10) % 10) + 1] \o Digits[(n % 10) + 1]

Pad4(n) == Pad2(n \div 100) \o Pad2(n % 100)

\* date.strftime(DATE_FMT), DATE_FMT = "%Y-%m-%d"
FormatDate(d) == Pad4(d.year) \o "-" \o Pad2(d.month) \o "-" \o Pad2(d.day)

\* date.strftime("%A %Y-%m-%d")
FormatDayLabel(d) == DayNames[Weekday(d) + 1] \o " " \o FormatDate(d)

---------------------------------------------------------------------------
(* datetime.datetime.strptime(text, "%Y-%m-%d").date() on a sequence of    *)
(* characters: ParseError stands for the ValueError.                       *)

ParseError == [year |-> -1, month |-> -1, day |-> -1]

DigitValue(c) == CHOOSE k \in 0..9 : Digits[k + 1] = c

IsDigit(c) == \E k \in 1..10 : Digits[k] = c

AllDigits(s) == \A i \in 1..Len(s) : IsDigit(s[i])

RECURSIVE NumberOf(_)
NumberOf(s) ==
    IF s = <<>> THEN 0
    ELSE NumberOf(SubSeq(s, 1, Len(s) - 1)) * 10 + DigitValue(s[Len(s)])

\* the fields between the "-" separators
RECURSIVE Fields(_)
Fields(s) ==
    IF \A i \in 1..Len(s) : s[i] # "-" THEN <<s>>
    ELSE LET k == CHOOSE i \in 1..Len(s) :
                      s[i] = "-" /\ \A j \in 1..(i - 1) : s[j] # "-"
         IN  <<SubSeq(s, 1, k - 1)>> \o Fields(SubSeq(s, k + 1, Len(s)))

StrpDate(s) ==
    LET f == Fields(s)
    IN  IF Len(f) # 3 THEN ParseError
        ELSE IF ~(Len(f[1]) = 4 /\ AllDigits(f[1])) THEN ParseError
        ELSE IF ~(Len(f[2]) \in {1, 2} /\ AllDigits(f[2])) THEN ParseError
        ELSE IF ~(Len(f[3]) \in {1, 2} /\ AllDigits(f[3])) THEN ParseError
        ELSE LET y == NumberOf(f[1])
                 m == NumberOf(f[2])
                 d == NumberOf(f[3])
             IN  IF y < 1 \/ m \notin 1..12 \/ d < 1 THEN ParseError
                 ELSE IF d > DaysInMonth(y, m) THEN ParseError
                 ELSE [year |-> y, month |-> m, day |-> d]

---------------------------------------------------------------------------
(* iso_week_monday, lines 46-48 *)

\* the same with isoweekday-like offsets counted from Sunday
iso_week_monday_from_sunday(any_date) ==
    AddDays(any_date, 0 - ((Weekday(any_date) + 1) % 7))

iso_week_monday(any_date) == AddDays(any_date, 0 - Weekday(any_date))

---------------------------------------------------------------------------
(* Page geometry: reportlab.lib.units and reportlab.lib.pagesizes, in      *)
(* tenths of a point.                                                      *)

inch == 720

\* letter = (8.5 inch, 11 inch)
letter == <<(85 * inch) \div 10, 11 * inch>>

\* landscape(pagesize): the longer side first
landscape(pagesize) ==
    IF pagesize[1] < pagesize[2] THEN <<pagesize[2], pagesize[1]>> ELSE pagesize

---------------------------------------------------------------------------
(* Python list indexing: seq[k] with k 0-based, negative k counted from    *)
(* the end; [ok |-> FALSE] stands for IndexError.                          *)

PyIndex(seq, k) ==
    LET j == IF k < 0 THEN k + Len(seq) ELSE k
    IN  IF j >= 0 /\ j < Len(seq)
        THEN [ok |-> TRUE, value |-> seq[j + 1]]
        ELSE [ok |-> FALSE, value |-> NoDate]

\* [x] * n
Repeat(x, n) == [i \in 1..n |-> x]

\* range(n) as a 1-based count
Count(n) == IF n > 0 THEN n ELSE 0

---------------------------------------------------------------------------
(* WeekDocTemplate, lines 51-82 *)

\* __init__ (lines 54-57) with the keyword arguments main passes
WeekDocTemplate(starts, pagesize, rightMargin, leftMargin, topMargin, bottomMargin) ==
    [week_starts  |-> starts,
     pagesize     |-> pagesize,
     rightMargin  |-> rightMargin,
     leftMargin   |-> leftMargin,
     topMargin    |-> topMargin,
     bottomMargin |-> bottomMargin]

\* the lookup without the IndexError handler
WeekLookup_no_fallback(starts, page_num) == PyIndex(starts, page_num - 1)

\* lines 68-71: the week of page page_num, falling back to the last week
WeekLookup(starts, page_num) ==
    LET first == PyIndex(starts, page_num - 1)
    IN  IF first.ok THEN first ELSE PyIndex(starts, 0 - 1)

\* line 78: the header's baseline
HeaderY(d) == letter[2] - ((65 * inch) \div 100)

\* line 81: the footer's baseline
FooterY(d) == (inch \div 2) - 40

\* lines 63-82: what beforePage draws on page page_num
beforePage(d, page_num) ==
    LET wk == WeekLookup(d.week_starts, page_num)
    IN  [ok       |-> wk.ok,
         week     |-> wk.value,
         header   |-> IF wk.ok THEN FormatDate(wk.value) ELSE "",
         header_x |-> (75 * inch) \div 100,
         header_y |-> HeaderY(d),
         footer_x |-> (75 * inch) \div 100,
         footer_y |-> FooterY(d)]

---------------------------------------------------------------------------
(* build_week_page, lines 85-168.  c is the configuration (the three       *)
(* module lists).  Cell and row coordinates in style commands are the      *)
(* 0-based (column, row) pairs of the source.                              *)

NumTypes(c) == Len(c.types)
NumDurations(c) == Len(c.durations)
NumBlocks(c) == Len(c.blocks)

\* lines 92-94
RECURSIVE TypeHeaders(_)
TypeHeaders(types) ==
    IF types = <<>> THEN <<>>
    ELSE <<Head(types), "", "">> \o TypeHeaders(Tail(types))

first_row(c) == <<"Time Block">> \o TypeHeaders(c.types)

\* lines 96-98
RECURSIVE DurationHeaders(_, _)
DurationHeaders(n, durations) ==
    IF n = 0 THEN <<>> ELSE durations \o DurationHeaders(n - 1, durations)

second_row(c) == <<"">> \o DurationHeaders(NumTypes(c), c.durations)

\* lines 105-107
sep_row(c, day) ==
    <<FormatDayLabel(day)>> \o Repeat("", 1 + NumTypes(c) * NumDurations(c) - 1)

\* lines 111-115
block_row(c, block_label) ==
    <<block_label>> \o Repeat("", NumTypes(c) * NumDurations(c))

\* the rows of one day with the day counted from 1
day_rows_from_one(c, monday, day_offset) ==
    <<sep_row(c, AddDays(monday, day_offset + 1))>>
        \o [b \in 1..NumBlocks(c) |-> block_row(c, c.blocks[b])]

\* lines 103-116: the rows of one day
day_rows(c, monday, day_offset) ==
    <<sep_row(c, AddDays(monday, day_offset))>>
        \o [b \in 1..NumBlocks(c) |-> block_row(c, c.blocks[b])]

RECURSIVE body_rows(_, _, _)
body_rows(c, monday, day_offset) ==
    IF day_offset = 7 THEN <<>>
    ELSE day_rows(c, monday, day_offset) \o body_rows(c, monday, day_offset + 1)

\* lines 92-116: the list `data`
build_data(c, monday) ==
    <<first_row(c), second_row(c)>> \o body_rows(c, monday, 0)

\* lines 119-121, in millimetres
time_block_w == 15
duration_w == 10
col_widths(c) ==
    <<time_block_w>> \o Repeat(duration_w, NumTypes(c) * NumDurations(c))

\* the span of interaction type i started one column early
type_span_from_zero(c, i) ==
    LET start == i * NumDurations(c)
        end   == start + NumDurations(c) - 1
    IN  [op |-> "SPAN", c0 |-> start, r0 |-> 0, c1 |-> end, r1 |-> 0, val |-> 0]

\* lines 129-132: the SPAN of interaction type i (0-based)
type_span(c, i) ==
    LET start == 1 + i * NumDurations(c)
        end   == start + NumDurations(c) - 1
    IN  [op |-> "SPAN", c0 |-> start, r0 |-> 0, c1 |-> end, r1 |-> 0, val |-> 0]

\* lines 143-145: the SPAN of day i's separator row (0-based)
day_span(c, widths, i) ==
    LET row_index == 2 + i * (1 + NumBlocks(c))
    IN  [op |-> "SPAN", c0 |-> 0, r0 |-> row_index,
         c1 |-> Len(widths) - 1, r1 |-> row_index, val |-> 0]

\* lines 143-150: the commands of day i that set a span or a font size
day_style(c, widths, i) ==
    LET row_index == 2 + i * (1 + NumBlocks(c))
    IN  <<day_span(c, widths, i),
          [op |-> "FONTSIZE", c0 |-> 0, r0 |-> row_index,
           c1 |-> -1, r1 |-> row_index, val |-> 90]>>

RECURSIVE day_styles(_, _, _)
day_styles(c, widths, i) ==
    IF i = 7 THEN <<>>
    ELSE day_style(c, widths, i) \o day_styles(c, widths, i + 1)

\* the commands of lines 126-165 that set spans, font sizes and vertical
\* padding, in the order they are added
build_style(c, widths) ==
    [i \in 1..NumTypes(c) |-> type_span(c, i - 1)]
    \o <<[op |-> "FONTSIZE", c0 |-> 0, r0 |-> 0, c1 |-> -1, r1 |-> 1, val |-> 80]>>
    \o day_styles(c, widths, 0)
    \o <<[op |-> "TOPPADDING", c0 |-> 1, r0 |-> 2, c1 |-> -1, r1 |-> -1, val |-> 20],
         [op |-> "BOTTOMPADDING", c0 |-> 1, r0 |-> 2, c1 |-> -1, r1 |-> -1, val |-> 20]>>

\* the locals of build_week_page when line 123 is reached
build_locals(c, monday) ==
    [monday |-> monday, data |-> build_data(c, monday), col_widths |-> col_widths(c)]

---------------------------------------------------------------------------
(* The Platypus Table that line 123 constructs and line 167 styles.        *)

Max(S) == CHOOSE x \in S : \A y \in S : y <= x

\* defaults of a table cell: leading, top and bottom padding
CellLeading == 120
CellPadding == 30
\* padding inside the frame of a SimpleDocTemplate page
FramePadding == 60

IsRagged(data) == \E r \in 1..Len(data) : Len(data[r]) # Len(data[1])

NumCols(data) == Max({Len(data[r]) : r \in 1..Len(data)})

\* short rows are filled with empty cells up to the longest row
PadRows(data) ==
    [r \in 1..Len(data) |-> data[r] \o Repeat("", NumCols(data) - Len(data[r]))]

\* a style index, negative ones counted from the end
Resolve(k, n) == IF k < 0 THEN k + n ELSE k

Covers(cmd, col, row, ncols, nrows) ==
    /\ Resolve(cmd.c0, ncols) <= col /\ col <= Resolve(cmd.c1, ncols)
    /\ Resolve(cmd.r0, nrows) <= row /\ row <= Resolve(cmd.r1, nrows)

\* the value the last command `op` covering cell (col, row) sets
CellAttr(style, op, col, row, ncols, nrows, default) ==
    LET S == {k \in 1..Len(style) :
                 style[k].op = op /\ Covers(style[k], col, row, ncols, nrows)}
    IN  IF S = {} THEN default ELSE style[Max(S)].val

\* a text cell is one line of the cell's leading plus its vertical padding;
\* FONTSIZE commands leave the leading as it is
CellHeight(style, col, row, ncols, nrows) ==
    CellLeading
    + CellAttr(style, "TOPPADDING", col, row, ncols, nrows, CellPadding)
    + CellAttr(style, "BOTTOMPADDING", col, row, ncols, nrows, CellPadding)

\* a row is as tall as its tallest cell (row is 0-based)
RowHeight(style, row, ncols, nrows) ==
    Max({CellHeight(style, col, row, ncols, nrows) : col \in 0..(ncols - 1)})

\* lines 123-168: Table(data, colWidths=col_widths, repeatRows=2) with style
Table(c, data, widths) ==
    LET rows  == PadRows(data)
        ncols == NumCols(data)
        style == build_style(c, widths)
    IN  [kind       |-> "Table",
         data       |-> rows,
         repeatRows |-> 2,
         style      |-> style,
         rowHeights |-> [r \in 1..Len(rows) |->
                            RowHeight(style, r - 1, ncols, Len(rows))]]

PageBreak ==
    [kind |-> "PageBreak", data |-> <<>>, repeatRows |-> 0,
     style |-> <<>>, rowHeights |-> <<>>]

---------------------------------------------------------------------------
(* doc.build, lines 232-236: the layout of the story into page frames.     *)

\* height the frame of a page leaves for flowables
FrameHeight(d) == d.pagesize[2] - d.topMargin - d.bottomMargin - 2 * FramePadding
FrameBottom(d) == d.bottomMargin
FrameTop(d) == d.pagesize[2] - d.topMargin

RECURSIVE SumHeights(_, _, _)
SumHeights(h, from, to) ==
    IF from > to THEN 0 ELSE h[from] + SumHeights(h, from + 1, to)

\* height of the repeated header rows drawn above a table continued on a
\* later page (row is the first undrawn row, 1-based; 1 is a fresh table)
HeadHeight(t, row) ==
    IF row = 1 THEN 0 ELSE SumHeights(t.rowHeights, 1, t.repeatRows)

\* the last row such that rows row..last (below the repeated header rows of a
\* continued table) fit in avail; row - 1 if not even one does
LastFit(t, row, avail) ==
    Max({row - 1} \cup
        {l \in row..Len(t.data) :
            HeadHeight(t, row) + SumHeights(t.rowHeights, row, l) <= avail})

\* rows of a piece of table t starting at row: the repeated header rows count
PieceRows(t, row, last) ==
    (last - row + 1) + (IF row = 1 THEN 0 ELSE t.repeatRows)

\* Fills one page frame from position p of the story.  Returns the segments
\* drawn ([item, from, to]: rows from..to of story[item]) and the position the
\* next page starts at.
RECURSIVE FillFrame(_, _, _, _)
FillFrame(st, p, avail, segs) ==
    IF p.item > Len(st) THEN [segs |-> segs, pos |-> p, ok |-> TRUE]
    ELSE IF st[p.item].kind = "PageBreak"
    THEN [segs |-> segs, pos |-> [item |-> p.item + 1, row |-> 1], ok |-> TRUE]
    ELSE LET t    == st[p.item]
             last == LastFit(t, p.row, avail)
             used == HeadHeight(t, p.row) + SumHeights(t.rowHeights, p.row, last)
             seg  == [item |-> p.item, from |-> p.row, to |-> last]
         IN  IF last = Len(t.data)
             THEN FillFrame(st, [item |-> p.item + 1, row |-> 1], avail - used,
                            Append(segs, seg))
             ELSE IF PieceRows(t, p.row, last) <= t.repeatRows
             THEN \* no split possible: the frame ends, or nothing ever fits
                  [segs |-> segs, pos |-> p, ok |-> segs # <<>>]
             ELSE FillFrame(st, [item |-> p.item, row |-> last + 1], avail - used,
                            Append(segs, seg))

---------------------------------------------------------------------------
(* Command line, lines 171-193 *)

\* args.start: None, or a str held as its sequence of characters
None == [is_none |-> TRUE, chars |-> <<>>]
Str(chars) == [is_none |-> FALSE, chars |-> chars]

\* Python truth value of args.start (line 200)
Truthy(v) == ~v.is_none /\ Len(v.chars) > 0

StartChoices ==
    { None,
      \* "2024-06-12": a Wednesday
      Str(<<"2", "0", "2", "4", "-", "0", "6", "-", "1", "2">>),
      \* "2024-06-10": a Monday
      Str(<<"2", "0", "2", "4", "-", "0", "6", "-", "1", "0">>),
      \* "2023-12-31": a Sunday, its week started in the old year's last days
      Str(<<"2", "0", "2", "3", "-", "1", "2", "-", "3", "1">>),
      \* "2024-03-02": a Saturday, its week holds February 29
      Str(<<"2", "0", "2", "4", "-", "0", "3", "-", "0", "2">>),
      \* "2024-6-1": no zero padding: strptime accepts it
      Str(<<"2", "0", "2", "4", "-", "6", "-", "1">>),
      \* "not-a-date": the malformed value of the usage scenario
      Str(<<"n", "o", "t", "-", "a", "-", "d", "a", "t", "e">>),
      \* "2024-02-30": no such day
      Str(<<"2", "0", "2", "4", "-", "0", "2", "-", "3", "0">>),
      \* "06/12/2024": another format
      Str(<<"0", "6", "/", "1", "2", "/", "2", "0", "2", "4">>),
      \* "": --start with an empty value
      Str(<<>>) }

\* --weeks is any int: argparse does not restrict it
WeeksChoices == (0 - 1)..MaxWeeks

\* datetime.date.today(): TodaySpan consecutive days from a Saturday at the
\* end of a year
TodayChoices ==
    { AddDays([year |-> 2024, month |-> 12, day |-> 28], k) : k \in 0..(TodaySpan - 1) }

---------------------------------------------------------------------------
(* main, lines 196-236 *)

Init ==
    /\ pc = "parse_args"
    /\ cfg \in Configs
    /\ args = [start |-> None, weeks |-> 1]
    /\ given = NoDate
    /\ first_monday = NoDate
    /\ week_starts = <<>>
    /\ weeks_built = FALSE
    /\ doc = <<>>
    /\ story = <<>>
    /\ idx = 0
    /\ cur = <<>>
    /\ pages = <<>>
    /\ pos = [item |-> 1, row |-> 1]
    /\ file_written = FALSE
    /\ exit_msg = ""

\* line 197
ParseArgs ==
    /\ pc = "parse_args"
    /\ \E start \in StartChoices, weeks \in WeeksChoices :
           args' = [start |-> start, weeks |-> weeks]
    /\ pc' = "resolve"
    /\ UNCHANGED <<cfg, given, first_monday, week_starts, weeks_built, doc, story,
                   idx, cur, pages, pos, file_written, exit_msg>>

\* lines 200-204: --start does not parse
StartBad ==
    /\ pc = "resolve"
    /\ Truthy(args.start)
    /\ StrpDate(args.start.chars) = ParseError
    /\ pc' = "exit"
    /\ exit_msg' = "SystemExit: Bad --start date format, expected YYYY-MM-DD"
    /\ UNCHANGED <<cfg, args, given, first_monday, week_starts, weeks_built, doc,
                   story, idx, cur, pages, pos, file_written>>

\* lines 200-202, 207: --start parses
StartGiven ==
    /\ pc = "resolve"
    /\ Truthy(args.start)
    /\ StrpDate(args.start.chars) # ParseError
    /\ given' = StrpDate(args.start.chars)
    /\ first_monday' = iso_week_monday(given')
    /\ pc' = "week_starts"
    /\ UNCHANGED <<cfg, args, week_starts, weeks_built, doc, story, idx, cur,
                   pages, pos, file_written, exit_msg>>

\* lines 205-207: no --start value
StartToday ==
    /\ pc = "resolve"
    /\ ~Truthy(args.start)
    /\ \E today \in TodayChoices : given' = today
    /\ first_monday' = iso_week_monday(given')
    /\ pc' = "week_starts"
    /\ UNCHANGED <<cfg, args, week_starts, weeks_built, doc, story, idx, cur,
                   pages, pos, file_written, exit_msg>>

\* line 210
BuildWeekStarts ==
    /\ pc = "week_starts"
    /\ week_starts' = [i \in 1..Count(args.weeks) |-> AddDays(first_monday, 7 * (i - 1))]
    /\ weeks_built' = TRUE
    /\ pc' = "make_doc"
    /\ UNCHANGED <<cfg, args, given, first_monday, doc, story, idx, cur, pages,
                   pos, file_written, exit_msg>>

\* lines 213-223
MakeDoc ==
    /\ pc = "make_doc"
    /\ doc' = <<WeekDocTemplate(week_starts, landscape(letter),
                                (4 * inch) \div 10, (4 * inch) \div 10,
                                inch, (9 * inch) \div 10)>>
    /\ story' = <<>>
    /\ idx' = 1
    /\ pc' = "story_loop"
    /\ UNCHANGED <<cfg, args, given, first_monday, week_starts, weeks_built, cur,
                   pages, pos, file_written, exit_msg>>

\* lines 225-226 and 92-121: the next week's rows and column widths
BuildData ==
    /\ pc = "story_loop"
    /\ idx <= Len(week_starts)
    /\ cur' = <<build_locals(cfg, week_starts[idx])>>
    /\ pc' = "make_table"
    /\ UNCHANGED <<cfg, args, given, first_monday, week_starts, weeks_built, doc,
                   story, idx, pages, pos, file_written, exit_msg>>

\* a PageBreak after every table, the last included
Separator_always(i, n) == <<PageBreak>>

\* lines 228-229: the PageBreak after every table but the last
Separator(i, n) == IF i # n THEN <<PageBreak>> ELSE <<>>

\* lines 123-168 and 227-229: the table is made and appended.  Rows of
\* unequal length are filled up when reportlab allows short table rows.
MakeTable ==
    /\ pc = "make_table"
    /\ story' = Append(story, Table(cfg, cur[1].data, cur[1].col_widths))
                   \o Separator(idx, Len(week_starts))
    /\ idx' = idx + 1
    /\ cur' = <<>>
    /\ pc' = "story_loop"
    /\ UNCHANGED <<cfg, args, given, first_monday, week_starts, weeks_built, doc,
                   pages, pos, file_written, exit_msg>>

\* line 123: rows of unequal length are refused when reportlab does not
\* allow short table rows
TableRefused ==
    /\ pc = "make_table"
    /\ IsRagged(cur[1].data)
    /\ pc' = "exit"
    /\ exit_msg' = "ValueError: unequal row lengths"
    /\ UNCHANGED <<cfg, args, given, first_monday, week_starts, weeks_built, doc,
                   story, idx, cur, pages, pos, file_written>>

\* line 225: the loop is over; line 232: doc.build starts
StartBuild ==
    /\ pc = "story_loop"
    /\ idx > Len(week_starts)
    /\ pos' = [item |-> 1, row |-> 1]
    /\ pc' = "build"
    /\ UNCHANGED <<cfg, args, given, first_monday, week_starts, weeks_built, doc,
                   story, idx, cur, pages, file_written, exit_msg>>

\* one physical page: beforePage (lines 63-82) with the canvas page number
\* (the page hooks of lines 234-235 call it again with the same number),
\* then the frame is filled
RenderedPage(d, st, p, page_num) ==
    LET stamp == beforePage(d, page_num)
        fill  == FillFrame(st, p, FrameHeight(d), <<>>)
    IN  [num |-> page_num, stamp |-> stamp, segs |-> fill.segs,
         next |-> fill.pos, ok |-> fill.ok]

\* lines 232-236: the renderer begins the next page
RenderPage ==
    /\ pc = "build"
    /\ pos.item <= Len(story)
    /\ LET page == RenderedPage(doc[1], story, pos, Len(pages) + 1)
       IN  IF ~page.stamp.ok
           THEN /\ pc' = "exit"
                /\ exit_msg' = "IndexError"
                /\ UNCHANGED <<pages, pos>>
           ELSE IF ~page.ok
           THEN /\ pc' = "exit"
                /\ exit_msg' = "LayoutError"
                /\ UNCHANGED <<pages, pos>>
           ELSE /\ pages' = Append(pages, [num    |-> page.num,
                                           stamp  |-> page.stamp,
                                           segs   |-> page.segs])
                /\ pos' = page.next
                /\ UNCHANGED <<pc, exit_msg>>
    /\ UNCHANGED <<cfg, args, given, first_monday, week_starts, weeks_built, doc,
                   story, idx, cur, file_written>>

\* the story is laid out: the canvas is saved to --outfile
SaveFile ==
    /\ pc = "build"
    /\ pos.item > Len(story)
    /\ file_written' = TRUE
    /\ pc' = "done"
    /\ UNCHANGED <<cfg, args, given, first_monday, week_starts, weeks_built, doc,
                   story, idx, cur, pages, pos, exit_msg>>

Next ==
    \/ ParseArgs
    \/ StartBad
    \/ StartGiven
    \/ StartToday
    \/ BuildWeekStarts
    \/ MakeDoc
    \/ BuildData
    \/ MakeTable
    \/ TableRefused
    \/ StartBuild
    \/ RenderPage
    \/ SaveFile

Spec == Init /\ [][Next]_vars

---------------------------------------------------------------------------
(* Properties *)

ShippedConfig ==
    [types |-> INTERACTION_TYPES, durations |-> DURATIONS, blocks |-> TIME_BLOCKS]

Wednesday ==
    [year |-> 2024, month |-> 6, day |-> 12]

Rendering == pc \in {"build", "done"}

\* the Monday of the week whose table is story[item]: tables and page
\* breaks alternate in the story
MondayOfItem(item) == week_starts[(item + 1) \div 2]

NumBreaks(st) == Cardinality({i \in 1..Len(st) : st[i].kind = "PageBreak"})

TableItems(st) == {i \in 1..Len(st) : st[i].kind = "Table"}

\* C1: for every reference date D, iso_week_monday(D) is a date M with
\* M <= D, D - M at most 6 days, and M a Monday (weekday offset 0, and the
\* day name strftime gives it is "Monday").
C1_MondayOfWeek ==
    first_monday # NoDate =>
        /\ ToOrdinal(first_monday) <= ToOrdinal(given)
        /\ ToOrdinal(given) - ToOrdinal(first_monday) <= 6
        /\ Weekday(first_monday) = 0
        /\ FormatDayLabel(first_monday) = "Monday " \o FormatDate(first_monday)

\* a Sunday resolved to the Monday six days before it, across a year's end
C1_Witness ==
    /\ first_monday = [year |-> 2023, month |-> 12, day |-> 25]
    /\ given = [year |-> 2023, month |-> 12, day |-> 31]

\* C2: for --weeks N with N >= 1 and the lists as shipped, the rendered
\* document has exactly N physical pages, and no week's table is split over
\* two pages.
C2_OnePagePerWeek ==
    (pc = "done" /\ args.weeks >= 1 /\ cfg = ShippedConfig) =>
        /\ Len(pages) = args.weeks
        /\ \A p \in 1..Len(pages) : \A k \in 1..Len(pages[p].segs) :
               LET seg == pages[p].segs[k]
               IN  seg.from = 1 /\ seg.to = Len(story[seg.item].data)

\* C3: on every physical page the "Week of" date of the header is the Monday
\* of the week whose rows are drawn on that page, and the dates stamped on
\* consecutive pages are 7 days apart (chronological, none repeated or
\* skipped).
C3_HeaderMatchesRows ==
    (Rendering /\ cfg = ShippedConfig) =>
        /\ \A p \in 1..Len(pages) : \A k \in 1..Len(pages[p].segs) :
               pages[p].stamp.week = MondayOfItem(pages[p].segs[k].item)
        /\ \A p \in 2..Len(pages) :
               ToOrdinal(pages[p].stamp.week) = ToOrdinal(pages[p - 1].stamp.week) + 7

\* C4: when --start is given and does not parse as YYYY-MM-DD, main aborts
\* before anything else happens: no week list, no document template, no
\* table, no page, and --outfile is never created or overwritten.
C4_BadStartAborts ==
    (/\ ~args.start.is_none
     /\ StrpDate(args.start.chars) = ParseError
     /\ pc \notin {"parse_args", "resolve"}) =>
        /\ pc = "exit"
        /\ ~weeks_built
        /\ doc = <<>>
        /\ story = <<>>
        /\ cur = <<>>
        /\ pages = <<>>
        /\ ~file_written

\* C5 as stated: the story holds exactly (page_count - 1) PageBreaks, where
\* page_count is the number of date units.
C5_BreaksAsStated ==
    Rendering => NumBreaks(story) = Len(week_starts) - 1

\* C5, amended: with at least one date unit the story holds exactly
\* (page_count - 1) PageBreaks, one after every table except the last, and
\* nothing follows the final table; with no date unit the story is empty.
C5_Breaks ==
    Rendering =>
        IF Len(week_starts) >= 1
        THEN /\ NumBreaks(story) = Len(week_starts) - 1
             /\ Cardinality(TableItems(story)) = Len(week_starts)
             /\ \A i \in TableItems(story) :
                    IF i = Len(story) THEN TRUE ELSE story[i + 1].kind = "PageBreak"
             /\ story[Len(story)].kind = "Table"
             /\ story[1].kind = "Table"
        ELSE story = <<>>

\* three weeks assembled: two breaks
C5_Witness ==
    /\ pc = "done"
    /\ Len(week_starts) = 3
    /\ NumBreaks(story) = 2

\* row (0-based) of day k's separator in a table with nb time blocks
SeparatorRow(k, nb) == 2 + k * (1 + nb)

BlankAfterLabel(row) == \A j \in 2..Len(row) : row[j] = ""

WednesdayWeekLabels ==
    <<"Monday 2024-06-10", "Tuesday 2024-06-11", "Wednesday 2024-06-12",
      "Thursday 2024-06-13", "Friday 2024-06-14", "Saturday 2024-06-15",
      "Sunday 2024-06-16">>

\* C6: the rows build_week_page builds for a Monday M are, after the 2 header
\* rows, exactly 7 day groups k = 0..6; group k starts with a separator row
\* at row 2 + k*(1 + |TIME_BLOCKS|) labelled with the weekday name and date
\* of M + k days (Monday first, Sunday last), followed by one row per time
\* block in TIME_BLOCKS order, blank but for its label.  For the reference
\* date Wednesday 2024-06-12 the labels run from "Monday 2024-06-10" to
\* "Sunday 2024-06-16".
C6_DayGroups ==
    cur # <<>> =>
        LET d  == cur[1].data
            M  == cur[1].monday
            nb == NumBlocks(cfg)
        IN  /\ Len(d) = 2 + 7 * (1 + nb)
            /\ \A k \in 0..6 :
                   LET r == SeparatorRow(k, nb) + 1
                   IN  /\ d[r][1] = DayNames[k + 1] \o " " \o FormatDate(AddDays(M, k))
                       /\ BlankAfterLabel(d[r])
                       /\ \A b \in 1..nb :
                              d[r + b][1] = cfg.blocks[b] /\ BlankAfterLabel(d[r + b])
            /\ (given = Wednesday /\ idx = 1) =>
                   \A k \in 0..6 :
                       d[SeparatorRow(k, nb) + 1][1] = WednesdayWeekLabels[k + 1]

\* the table of the week of Wednesday 2024-06-12, with the lists as shipped
C6_Witness ==
    /\ cur # <<>>
    /\ cfg = ShippedConfig
    /\ given = Wednesday
    /\ Weekday(cur[1].monday) = 0
    /\ cur[1].data[3][1] = "Monday 2024-06-10"
    /\ cur[1].data[39][1] = "Sunday 2024-06-16"
    /\ cur[1].data[44][1] = "4p-6p"

Spans(t) == {k \in 1..Len(t.style) : t.style[k].op = "SPAN"}
HeaderSpans(t) == {k \in Spans(t) : t.style[k].r0 = 0}
DaySpans(t) == {k \in Spans(t) : t.style[k].r0 # 0}

\* C7: in every week's table, the header span of category i covers exactly
\* |DURATIONS| columns of row 0 starting at column 1 + i*|DURATIONS|; the
\* header spans partition the data columns 1..|INTERACTION_TYPES|*|DURATIONS|
\* and never include column 0; and the 7 day spans each cover exactly one
\* row, a day-separator's (never a header or time-block row), from column 0
\* to the last of those columns.
C7_Spans ==
    \A item \in TableItems(story) :
        LET t     == story[item]
            nt    == NumTypes(cfg)
            nd    == NumDurations(cfg)
            nb    == NumBlocks(cfg)
            M     == MondayOfItem(item)
        IN  /\ Cardinality(HeaderSpans(t)) = nt
            /\ \A i \in 0..(nt - 1) :
                   LET sp == t.style[i + 1]
                   IN  /\ sp.op = "SPAN"
                       /\ sp.r0 = 0 /\ sp.r1 = 0
                       /\ sp.c0 = 1 + i * nd
                       /\ sp.c1 - sp.c0 + 1 = nd
            /\ \A col \in 1..(nt * nd) :
                   Cardinality({k \in HeaderSpans(t) :
                                   t.style[k].c0 <= col /\ col <= t.style[k].c1}) = 1
            /\ \A k \in HeaderSpans(t) : t.style[k].c0 >= 1 /\ t.style[k].c1 <= nt * nd
            /\ Cardinality(DaySpans(t)) = 7
            /\ {t.style[k].r0 : k \in DaySpans(t)} = {SeparatorRow(j, nb) : j \in 0..6}
            /\ \A k \in DaySpans(t) :
                   LET sp == t.style[k]
                   IN  /\ sp.r0 = sp.r1
                       /\ sp.c0 = 0
                       /\ sp.c1 = nt * nd
                       /\ sp.r0 >= 2
                       /\ t.data[sp.r0 + 1][1] \in {FormatDayLabel(AddDays(M, j)) : j \in 0..6}
                       /\ \A b \in 1..nb : t.data[sp.r0 + 1][1] # cfg.blocks[b]

\* a styled table of the shipped lists: the last category spans columns 22..24
\* and Sunday's separator row 38 spans columns 0..24
C7_Witness ==
    /\ cfg = ShippedConfig
    /\ \E item \in TableItems(story) :
           /\ \E k \in HeaderSpans(story[item]) :
                  story[item].style[k].c0 = 22 /\ story[item].style[k].c1 = 24
           /\ \E k \in DaySpans(story[item]) :
                  story[item].style[k].r0 = 38 /\ story[item].style[k].c1 = 24

\* C8: for every physical page p >= 1 the renderer presents to beforePage
\* the week lookup does not fail: it yields week_starts[p-1] when p is at
\* most the number of weeks and the last week otherwise, so every rendered
\* page has a header label.
C8_LookupNeverFails ==
    /\ exit_msg # "IndexError"
    /\ \A p \in 1..Len(pages) :
           /\ pages[p].num = p
           /\ pages[p].stamp.ok
           /\ pages[p].stamp.week =
                  IF p <= Len(week_starts) THEN week_starts[p]
                  ELSE week_starts[Len(week_starts)]
           /\ pages[p].stamp.header = FormatDate(pages[p].stamp.week)

\* a page beyond the number of weeks was rendered and stamped with the last
C8_Witness ==
    \E p \in 1..Len(pages) :
        /\ p > Len(week_starts)
        /\ pages[p].stamp.week = week_starts[Len(week_starts)]

\* C9: on every page the header and footer baselines lie inside the page
\* being rendered (the document's own landscape pagesize): the header above
\* the table frame and below the page's top edge, the footer below the frame
\* and above the page's bottom edge.
C9_DecorationsOnPage ==
    \A p \in 1..Len(pages) :
        LET st == pages[p].stamp
            d  == doc[1]
        IN  /\ st.header_y > 0
            /\ st.header_y < d.pagesize[2]
            /\ st.header_y > FrameTop(d)
            /\ st.footer_y > 0
            /\ st.footer_y < FrameBottom(d)

\* C10: for any non-empty INTERACTION_TYPES, DURATIONS and TIME_BLOCKS, every
\* row build_week_page builds has 1 + |INTERACTION_TYPES|*|DURATIONS| cells,
\* as many as there are column widths; there are 2 + 7*(1 + |TIME_BLOCKS|)
\* rows; and in row 0 each category's label is in the first column of the
\* category's span.
C10_RowsRectangular ==
    cur # <<>> =>
        LET d  == cur[1].data
            nt == NumTypes(cfg)
            nd == NumDurations(cfg)
        IN  /\ Len(d) = 2 + 7 * (1 + NumBlocks(cfg))
            /\ Len(cur[1].col_widths) = 1 + nt * nd
            /\ \A r \in 1..Len(d) : Len(d[r]) = 1 + nt * nd
            /\ \A i \in 0..(nt - 1) : d[1][(1 + i * nd) + 1] = cfg.types[i + 1]

===========================================================================
